---- MODULE Spec2Model ----
(***************************************************************************)
(* DocuChat: the client component DocChat (file selection, document        *)
(* processing, chat turns), the text extraction dispatcher                 *)
(* extractTextFromFile, the pdf.js worker bootstrap ensurePdfjsWorker and  *)
(* the /api/gemini route.                                                  *)
(*                                                                         *)
(* Text is a sequence of one-character strings.  An optional value is a    *)
(* sequence of length 0 (absent) or 1 (present).                           *)
(***************************************************************************)
EXTENDS Integers, Sequences, FiniteSets, TLC

\* ------------------------------------------------------------------ bounds
MaxFiles == 2
MaxAttempts == 2
MaxTurns == 2

\* ------------------------------------------------------------ text helpers
None == <<>>
Some(x) == <<x>>

IsSpace(c) == c \in {" ", "\n"}

RECURSIVE TrimStart(_)
TrimStart(s) ==
  IF s = <<>> THEN <<>>
  ELSE IF IsSpace(Head(s)) THEN TrimStart(Tail(s)) ELSE s

RECURSIVE TrimEnd(_)
TrimEnd(s) ==
  IF s = <<>> THEN <<>>
  ELSE IF IsSpace(s[Len(s)]) THEN TrimEnd(SubSeq(s, 1, Len(s) - 1)) ELSE s

\* String.prototype.trim
Trim(s) == TrimEnd(TrimStart(s))

ToLowerChar(c) ==
  CASE c = "P" -> "p" [] c = "D" -> "d" [] c = "F" -> "f"
    [] c = "O" -> "o" [] c = "C" -> "c" [] c = "X" -> "x"
    [] c = "T" -> "t" [] c = "N" -> "n"
    [] OTHER -> c

\* String.prototype.toLowerCase
ToLowerCase(s) == [i \in 1..Len(s) |-> ToLowerChar(s[i])]

\* String.prototype.endsWith
EndsWith(s, suffix) ==
  /\ Len(s) >= Len(suffix)
  /\ SubSeq(s, Len(s) - Len(suffix) + 1, Len(s)) = suffix

\* String.prototype.includes
Includes(s, needle) ==
  \E i \in 1..(Len(s) + 1) :
     /\ i + Len(needle) - 1 <= Len(s)
     /\ SubSeq(s, i, i + Len(needle) - 1) = needle

\* Array.prototype.join
RECURSIVE Join(_, _)
Join(parts, sep) ==
  IF parts = <<>> THEN <<>>
  ELSE IF Len(parts) = 1 THEN parts[1]
  ELSE parts[1] \o sep \o Join(Tail(parts), sep)

\* ------------------------------------------------------------------- files
PdfMime == "application/pdf"
DocxMime == "application/vnd.openxmlformats-officedocument.wordprocessingml.document"
TxtMime == "text/plain"

MimeTypes == {PdfMime, DocxMime, TxtMime, "", "application/octet-stream"}

FileNames ==
  { <<"n", ".", "p", "d", "f">>, <<"N", ".", "P", "D", "F">>,
    <<"n", ".", "d", "o", "c", "x">>, <<"n", ".", "D", "o", "c", "X">>,
    <<"n", ".", "t", "x", "t">>, <<"n", ".", "T", "X", "T">>,
    <<"n", ".", "b", "i", "n">>, <<>> }

\* A document body: a sequence of pages, a page a sequence of text items.
OnePage == << << <<"x">> >> >>

\* Every pairing of a declared type with a name.
SingleFiles == [name : FileNames, type : MimeTypes, pages : {OnePage}]

\* One file of each format, with distinct bodies.
PdfFile == [name |-> <<"a", ".", "p", "d", "f">>, type |-> PdfMime,
            pages |-> << << <<"a">>, <<"b">> >>, << <<"c">> >> >>]
TxtFile == [name |-> <<"b", ".", "t", "x", "t">>, type |-> TxtMime,
            pages |-> << << <<"t">> >> >>]
DocxFile == [name |-> <<"c", ".", "d", "o", "c", "x">>, type |-> DocxMime,
             pages |-> <<>>]
BatchFiles == {PdfFile, TxtFile, DocxFile}

\* The lists of at most n distinct members of S.
RECURSIVE DistinctSeqs(_, _)
DistinctSeqs(S, n) ==
  IF n = 0 THEN {<<>>}
  ELSE LET shorter == DistinctSeqs(S, n - 1)
           Fresh(s) == {y \in S : \A i \in 1..Len(s) : s[i] # y}
       IN shorter \cup UNION {{Append(s, x) : x \in Fresh(s)} : s \in shorter}

\* The FileList values a change event can carry: one file at a time, a
\* batch of distinct files, one file of any type and name.
Selections == DistinctSeqs(BatchFiles, 1)
BatchSelections == DistinctSeqs(BatchFiles, MaxFiles)
SingleSelections == {<<f>> : f \in SingleFiles}

RECURSIVE Flatten(_)
Flatten(ss) == IF ss = <<>> THEN <<>> ELSE Head(ss) \o Flatten(Tail(ss))

\* file.text(): the raw character content of the file
FileText(file) == Flatten([i \in 1..Len(file.pages) |-> Flatten(file.pages[i])])

\* ----------------------------------------------------------- worker set-up
PDFJS_VERSION == "5.4.296"
WorkerSrcUrl == "https://cdn.jsdelivr.net/npm/pdfjs-dist@5.4.296/build/pdf.worker.min.mjs"
hasWindow == TRUE
Callers == {"module", "mount"}

VARIABLES
  initialized,      \* pdfjs-worker.ts: let initialized
  workerSrc,        \* pdfjs.GlobalWorkerOptions.workerSrc (optional)
  workerSrcWrites,  \* number of assignments made to workerSrc
  ensurePc,         \* position of each ensurePdfjsWorker call
  importQueue,      \* pending import("pdfjs-dist/build/pdf.mjs") calls, oldest first
  pdfjsLoaded,      \* the pdf.js module has been loaded once
  mounted,          \* DocChat has mounted and run its mount effect
  files, knowledgeBase, isReady, messages, input, isSending,  \* useState cells
  procPc,           \* position of the running handleProcessDocuments call
  procFiles,        \* the files captured by the running handleProcessDocuments
  values,           \* Promise.all's result array for the running call
  attempt,          \* number of handleProcessDocuments calls started
  tasks,            \* extractTextFromFile calls
  sendPc,           \* position of the running handleSend call
  request,          \* the fetch("/api/gemini") request in flight (optional)
  response,         \* the outcome of the fetch, not yet consumed (optional)
  uuid,             \* crypto.randomUUID: number of ids handed out
  turns,            \* accepted submissions
  uncaught,         \* an error escaped a handler
  lastOp            \* the handler or step that ran last

bootVars == <<initialized, workerSrc, workerSrcWrites, ensurePc, importQueue, pdfjsLoaded, mounted>>
stateVars == <<files, knowledgeBase, isReady, messages, input, isSending>>
procVars == <<procPc, procFiles, values, attempt, tasks>>
sendVars == <<sendPc, request, response, turns>>
vars == <<bootVars, stateVars, procVars, sendVars, uuid, uncaught, lastOp>>

Init ==
  /\ initialized = FALSE
  /\ workerSrc = None
  /\ workerSrcWrites = 0
  /\ ensurePc = [c \in Callers |-> "notCalled"]
  /\ importQueue = <<>>
  /\ pdfjsLoaded = FALSE
  /\ mounted = FALSE
  /\ files = <<>>
  /\ knowledgeBase = <<>>
  /\ isReady = FALSE
  /\ messages = <<>>
  /\ input = <<>>
  /\ isSending = FALSE
  /\ procPc = "idle"
  /\ procFiles = <<>>
  /\ values = <<>>
  /\ attempt = 0
  /\ tasks = {}
  /\ sendPc = "idle"
  /\ request = None
  /\ response = None
  /\ uuid = 0
  /\ turns = 0
  /\ uncaught = FALSE
  /\ lastOp = "init"

\* ------------------------------------------------------- ensurePdfjsWorker
Importer(who, a, i) == [who |-> who, attempt |-> a, idx |-> i]

\* if (initialized) return; if (typeof window === "undefined") return;
\* otherwise the call suspends on the dynamic import.
EnsureCall(c) ==
  IF initialized \/ ~hasWindow
  THEN /\ ensurePc' = [ensurePc EXCEPT ![c] = "returned"]
       /\ UNCHANGED importQueue
  ELSE /\ ensurePc' = [ensurePc EXCEPT ![c] = "importing"]
       /\ importQueue' = Append(importQueue, Importer(c, 0, 0))

\* The eager call made when the module pdfjs-worker.ts is evaluated.
ModuleEval ==
  /\ ensurePc["module"] = "notCalled"
  /\ EnsureCall("module")
  /\ lastOp' = "other"
  /\ UNCHANGED <<initialized, workerSrc, workerSrcWrites, pdfjsLoaded, mounted,
                 stateVars, procVars, sendVars, uuid, uncaught>>

\* DocChat's mount effect; the module it imports has been evaluated.
Mount ==
  /\ ~mounted
  /\ ensurePc["module"] # "notCalled"
  /\ mounted' = TRUE
  /\ EnsureCall("mount")
  /\ lastOp' = "other"
  /\ UNCHANGED <<initialized, workerSrc, workerSrcWrites, pdfjsLoaded,
                 stateVars, procVars, sendVars, uuid, uncaught>>

\* The import resolved: write the worker script URL, then set the flag.
EnsureConfigure(c) ==
  /\ ensurePc[c] = "importing"
  /\ importQueue # <<>> /\ Head(importQueue) = Importer(c, 0, 0)
  /\ importQueue' = Tail(importQueue)
  /\ pdfjsLoaded' = TRUE
  /\ workerSrc' = Some(WorkerSrcUrl)
  /\ workerSrcWrites' = workerSrcWrites + 1
  /\ initialized' = TRUE
  /\ ensurePc' = [ensurePc EXCEPT ![c] = "done"]
  /\ lastOp' = "other"
  /\ UNCHANGED <<mounted, stateVars, procVars, sendVars, uuid, uncaught>>

\* The import rejected: the call rejects and its .catch logs the error.
EnsureImportFailed(c) ==
  /\ ensurePc[c] = "importing"
  /\ importQueue # <<>> /\ Head(importQueue) = Importer(c, 0, 0)
  /\ ~pdfjsLoaded
  /\ importQueue' = Tail(importQueue)
  /\ ensurePc' = [ensurePc EXCEPT ![c] = "failed"]
  /\ lastOp' = "other"
  /\ UNCHANGED <<initialized, workerSrc, workerSrcWrites, pdfjsLoaded, mounted,
                 stateVars, procVars, sendVars, uuid, uncaught>>

\* ----------------------------------------------------- extractTextFromFile
PdfExt == <<".", "p", "d", "f">>
DocxExt == <<".", "d", "o", "c", "x">>
TxtExt == <<".", "t", "x", "t">>

\* A test of the declared type alone.
isPDFByTypeOnly(file) == file.type = PdfMime

isPDF(file) == file.type = PdfMime \/ EndsWith(ToLowerCase(file.name), PdfExt)
isDOCX(file) == file.type = DocxMime \/ EndsWith(ToLowerCase(file.name), DocxExt)
isTXT(file) == file.type = TxtMime \/ EndsWith(ToLowerCase(file.name), TxtExt)

\* The branch of extractTextFromFile a file is sent down.
Route(file) ==
  IF isPDF(file) THEN "pdf"
  ELSE IF isDOCX(file) THEN "docx"
  ELSE IF isTXT(file) THEN "txt"
  ELSE "unknown"

\* The page loop: items joined by a space, a newline after each page, trimmed.
RECURSIVE PagesText(_)
PagesText(pages) ==
  IF pages = <<>> THEN <<>>
  ELSE Join(Head(pages), <<" ">>) \o <<"\n">> \o PagesText(Tail(pages))

PdfText(file) == Trim(PagesText(file.pages))

\* Errors carry a message and the text String(err) gives; both in words.
Needle == <<"does", "not", "match", "the", "Worker", "version">>
MismatchError == [message |-> <<"API", "version">> \o Needle, str |-> <<"Error">>]
MismatchString == [message |-> <<>>, str |-> <<"it">> \o Needle]
InvalidPdfError == [message |-> <<"Invalid", "PDF">>, str |-> <<"Error">>]
PartialError == [message |-> <<"does", "not", "match">>, str |-> <<"Error">>]
ReadError == [message |-> <<"read">>, str |-> <<"Error">>]
ImportError == [message |-> <<"import">>, str |-> <<"Error">>]
PageError == [message |-> <<"page">>, str |-> <<"Error">>]
DocxError == [message |-> <<"docx">>, str |-> <<"Error">>]

\* What getDocument(...).promise can reject with.
OpenErrors == {MismatchError, MismatchString, InvalidPdfError, PartialError}

\* String(err?.message || err || "")
ErrorMsg(err) == IF err.message # <<>> THEN err.message ELSE err.str

\* A test for the first words of the mismatch text only.
IsWorkerMismatchLoose(err) == Includes(ErrorMsg(err), <<"does", "not", "match">>)

\* msg.includes("does not match the Worker version")
IsWorkerMismatch(err) == Includes(ErrorMsg(err), Needle)

\* The call extractTextFromFile(file) up to its first await.
NewTask(a, i, file) ==
  [attempt |-> a, idx |-> i, file |-> file, route |-> Route(file),
   pc |-> IF Route(file) \in {"pdf", "docx"} THEN "getArrayBuffer" ELSE "fileText",
   opens |-> 0, workerDisabled |-> FALSE, firstErr |-> None,
   text |-> None, error |-> None, rank |-> 0]

Finished(t) == t.pc \in {"resolved", "rejected"}
Current(t) == t.attempt = attempt /\ procPc = "awaitAll"

\* A result array filled in the order the promises fulfil.
ResolveElementArrival(vals, index, x) ==
  LET free == CHOOSE i \in 1..Len(vals) :
                /\ vals[i] = None
                /\ \A j \in 1..(i - 1) : vals[j] # None
  IN [vals EXCEPT ![free] = Some(x)]

\* Promise.all stores a fulfilment value at the index of its promise.
ResolveElement(vals, index, x) == [vals EXCEPT ![index] = Some(x)]

\* How many promises of the batch have fulfilled so far.
Fulfilled(vals) == Cardinality({i \in 1..Len(vals) : vals[i] # None})

\* rank: the position of this fulfilment among those of its batch.
Resolve(t, x) ==
  /\ tasks' = (tasks \ {t}) \cup
                {[t EXCEPT !.pc = "resolved", !.text = Some(x),
                           !.rank = IF Current(t) THEN Fulfilled(values) + 1 ELSE 0]}
  /\ values' = IF Current(t) THEN ResolveElement(values, t.idx, x) ELSE values

\* catch (e) { console.error(...); throw e }
Reject(t, err) ==
  /\ tasks' = (tasks \ {t}) \cup {[t EXCEPT !.pc = "rejected", !.error = Some(err)]}
  /\ values' = values

Step(t, u) ==
  /\ tasks' = (tasks \ {t}) \cup {u}
  /\ values' = values

taskFrame == <<initialized, workerSrc, workerSrcWrites, ensurePc, mounted,
               stateVars, procPc, procFiles, attempt, sendVars, uuid, uncaught>>

\* await getArrayBuffer(file) on the PDF and DOCX branches; the PDF branch
\* goes on to call import("pdfjs-dist/build/pdf.mjs").
TaskGetArrayBuffer(t) ==
  /\ t.pc = "getArrayBuffer"
  /\ \/ /\ t.route = "pdf"
        /\ Step(t, [t EXCEPT !.pc = "importPdfjs"])
        /\ importQueue' = Append(importQueue, Importer("task", t.attempt, t.idx))
     \/ /\ t.route = "docx"
        /\ Step(t, [t EXCEPT !.pc = "extractRawText"])
        /\ UNCHANGED importQueue
     \/ /\ Reject(t, ReadError)
        /\ UNCHANGED importQueue
  /\ lastOp' = "other"
  /\ UNCHANGED <<taskFrame, pdfjsLoaded>>

\* The import resolved: getDocument({ data }) is called, with the worker.
TaskImportPdfjs(t) ==
  /\ t.pc = "importPdfjs"
  /\ importQueue # <<>> /\ Head(importQueue) = Importer("task", t.attempt, t.idx)
  /\ importQueue' = Tail(importQueue)
  /\ \/ /\ pdfjsLoaded' = TRUE
        /\ Step(t, [t EXCEPT !.pc = "getDocument", !.opens = t.opens + 1])
     \/ /\ ~pdfjsLoaded
        /\ UNCHANGED pdfjsLoaded
        /\ Reject(t, ImportError)
  /\ lastOp' = "other"
  /\ UNCHANGED taskFrame

\* The first open settles.  On a rejection whose message includes the
\* mismatch text, getDocument({ data, disableWorker: true }) is called;
\* any other rejection is rethrown.
TaskGetDocument(t) ==
  /\ t.pc = "getDocument"
  /\ \/ Step(t, [t EXCEPT !.pc = "readPages"])
     \/ \E err \in OpenErrors :
          IF IsWorkerMismatch(err)
          THEN Step(t, [t EXCEPT !.pc = "retryGetDocument", !.opens = t.opens + 1,
                                 !.workerDisabled = TRUE, !.firstErr = Some(err)])
          ELSE Step(t, [t EXCEPT !.pc = "rejected", !.firstErr = Some(err),
                                 !.error = Some(err)])
  /\ lastOp' = "other"
  /\ UNCHANGED <<taskFrame, importQueue, pdfjsLoaded>>

\* The open without the worker settles; its rejection is not caught again.
TaskRetryGetDocument(t) ==
  /\ t.pc = "retryGetDocument"
  /\ \/ Step(t, [t EXCEPT !.pc = "readPages"])
     \/ \E err \in OpenErrors : Reject(t, err)
  /\ lastOp' = "other"
  /\ UNCHANGED <<taskFrame, importQueue, pdfjsLoaded>>

\* for (i = 1..numPages) { getPage; getTextContent; ... } return text.trim()
TaskReadPages(t) ==
  /\ t.pc = "readPages"
  /\ \/ Resolve(t, PdfText(t.file))
     \/ Reject(t, PageError)
  /\ lastOp' = "other"
  /\ UNCHANGED <<taskFrame, importQueue, pdfjsLoaded>>

\* import("mammoth"); extractRawText; return result.value || ""
TaskExtractRawText(t) ==
  /\ t.pc = "extractRawText"
  /\ \/ \E value \in {Some(FileText(t.file)), None} :
          Resolve(t, IF value # None /\ value[1] # <<>> THEN value[1] ELSE <<>>)
     \/ Reject(t, DocxError)
  /\ lastOp' = "other"
  /\ UNCHANGED <<taskFrame, importQueue, pdfjsLoaded>>

\* try { return await file.text() } on the TXT and unknown branches
TaskFileText(t) ==
  /\ t.pc = "fileText"
  /\ \/ Resolve(t, FileText(t.file))
     \/ Step(t, [t EXCEPT !.pc = "decodeFallback"])
  /\ lastOp' = "other"
  /\ UNCHANGED <<taskFrame, importQueue, pdfjsLoaded>>

\* catch { getArrayBuffer; new TextDecoder("utf-8", { fatal: false }).decode }
TaskDecodeFallback(t) ==
  /\ t.pc = "decodeFallback"
  /\ \/ Resolve(t, FileText(t.file))
     \/ Reject(t, ReadError)
  /\ lastOp' = "other"
  /\ UNCHANGED <<taskFrame, importQueue, pdfjsLoaded>>

\* ------------------------------------------------------------------ DocChat
Separator == <<"\n", "\n", "-", "-", "-", "\n", "\n">>
WelcomeText == <<"Hi! Your documents are processed. Ask a question and I will answer based on them.">>
ApologyText == <<"Sorry, something went wrong reaching Gemini. Please try again.">>

\* What the user can type, and what the model can answer.
Inputs == {<<>>, <<" ">>, <<"q">>, <<" ", "q", "\n">>}
Replies == {<<"r">>}

hasFiles == Len(files) > 0

ChatMessage(id, role, content) == [id |-> id, role |-> role, content |-> content]

chatFrame == <<bootVars, procVars, uncaught>>

\* onChange of the file input, rendered while !isReady.  list is optional.
handleFileChange(list) ==
  /\ mounted /\ ~isReady
  /\ files' = IF list = None THEN files ELSE list[1]
  /\ lastOp' = "other"
  /\ UNCHANGED <<bootVars, knowledgeBase, isReady, messages, input, isSending,
                 procVars, sendVars, uuid, uncaught>>

\* onClick of "Process Documents", rendered while !isReady and enabled
\* while hasFiles && !isSending: runs up to the await of Promise.all.
\* Extractions of a failed batch that are still running are not cancelled;
\* the records of finished ones from earlier batches are dropped here.
handleProcessDocuments ==
  /\ mounted /\ ~isReady /\ ~isSending
  /\ hasFiles
  /\ attempt < MaxAttempts
  /\ isSending' = TRUE
  /\ attempt' = attempt + 1
  /\ procFiles' = files
  /\ tasks' = {t \in tasks : ~Finished(t)}
                \cup {NewTask(attempt + 1, i, files[i]) : i \in 1..Len(files)}
  /\ values' = [i \in 1..Len(files) |-> None]
  /\ procPc' = "awaitAll"
  /\ lastOp' = "other"
  /\ UNCHANGED <<bootVars, files, knowledgeBase, isReady, messages, input,
                 sendVars, uuid, uncaught>>

\* Promise.all fulfilled: join, publish the knowledge base, become ready,
\* seed the transcript; finally setIsSending(false).
ProcessDocumentsSuccess ==
  /\ procPc = "awaitAll"
  /\ \A i \in 1..Len(values) : values[i] # None
  /\ LET texts == [i \in 1..Len(values) |-> values[i][1]]
         kb == Join(texts, Separator)
     IN knowledgeBase' = kb
  /\ isReady' = TRUE
  /\ messages' = <<ChatMessage(uuid + 1, "assistant", WelcomeText)>>
  /\ uuid' = uuid + 1
  /\ isSending' = FALSE
  /\ procPc' = "idle"
  /\ lastOp' = "other"
  /\ UNCHANGED <<bootVars, files, input, procFiles, values, attempt, tasks,
                 sendVars, uncaught>>

\* A catch block that publishes the texts extracted so far.
ProcessDocumentsCatchPartial ==
  /\ procPc = "awaitAll"
  /\ \E t \in tasks : t.attempt = attempt /\ t.pc = "rejected"
  /\ LET done == SelectSeq(values, LAMBDA v : v # None)
     IN knowledgeBase' = Join([i \in 1..Len(done) |-> done[i][1]], Separator)
  /\ isSending' = FALSE
  /\ procPc' = "idle"
  /\ lastOp' = "other"
  /\ UNCHANGED <<bootVars, files, isReady, messages, input,
                 procFiles, values, attempt, tasks, sendVars, uuid, uncaught>>

\* A handler that sets the readiness flag whatever the outcome.
ProcessDocumentsCatchReady ==
  /\ procPc = "awaitAll"
  /\ \E t \in tasks : t.attempt = attempt /\ t.pc = "rejected"
  /\ isReady' = TRUE
  /\ isSending' = FALSE
  /\ procPc' = "idle"
  /\ lastOp' = "other"
  /\ UNCHANGED <<bootVars, files, knowledgeBase, messages, input,
                 procFiles, values, attempt, tasks, sendVars, uuid, uncaught>>

\* Promise.all rejected: console.error, alert; finally setIsSending(false).
ProcessDocumentsCatch ==
  /\ procPc = "awaitAll"
  /\ \E t \in tasks : t.attempt = attempt /\ t.pc = "rejected"
  /\ isSending' = FALSE
  /\ procPc' = "idle"
  /\ lastOp' = "other"
  /\ UNCHANGED <<bootVars, files, knowledgeBase, isReady, messages, input,
                 procFiles, values, attempt, tasks, sendVars, uuid, uncaught>>

\* onChange of the chat input, rendered while isReady, disabled while isSending.
setInput(v) ==
  /\ mounted /\ isReady /\ ~isSending
  /\ input' = v
  /\ lastOp' = "other"
  /\ UNCHANGED <<bootVars, files, knowledgeBase, isReady, messages, isSending,
                 procVars, sendVars, uuid, uncaught>>

\* A guard that tests the input without trimming it.
SendRejectedNoTrim == input = <<>> \/ isSending \/ ~isReady

\* if (!input.trim() || isSending || !isReady) return
SendRejected == Trim(input) = <<>> \/ isSending \/ ~isReady

\* A body built from the transcript as rendered, without the new user turn.
RequestBodyStale(kb, msgs) ==
  [knowledgeBase |-> kb,
   messages |-> [i \in 1..(Len(msgs) - 1) |-> [role |-> msgs[i].role, content |-> msgs[i].content]]]

\* JSON body of the answering request
RequestBody(kb, msgs) ==
  [knowledgeBase |-> kb,
   messages |-> [i \in 1..Len(msgs) |-> [role |-> msgs[i].role, content |-> msgs[i].content]]]

\* onSubmit of the chat form, up to the await of fetch.  The handler tests
\* isReady and isSending itself, so a submit event is taken in every state
\* of the mounted component; a call that returns at the guard changes
\* nothing but the record of the last handler run.
handleSend ==
  /\ mounted
  /\ IF SendRejected
     THEN /\ lastOp' = "handleSend:return"
          /\ UNCHANGED <<stateVars, sendVars, uuid>>
     ELSE /\ turns < MaxTurns
          /\ LET userMsg == ChatMessage(uuid + 1, "user", Trim(input))
             IN /\ messages' = Append(messages, userMsg)
                /\ request' = Some(RequestBody(knowledgeBase, Append(messages, userMsg)))
          /\ uuid' = uuid + 1
          /\ input' = <<>>
          /\ isSending' = TRUE
          /\ sendPc' = "awaitFetch"
          /\ turns' = turns + 1
          /\ lastOp' = "handleSend"
          /\ UNCHANGED <<files, knowledgeBase, isReady, response>>
  /\ UNCHANGED chatFrame

HttpResponse(status, reply) == [kind |-> "http", status |-> status, reply |-> reply]
NetworkError == [kind |-> "networkError", status |-> 0, reply |-> <<>>]

\* fetch rejects: the request never gets an HTTP response.
FetchRejects ==
  /\ request # None
  /\ request' = None
  /\ response' = Some(NetworkError)
  /\ lastOp' = "other"
  /\ UNCHANGED <<chatFrame, stateVars, sendPc, turns, uuid>>

\* The route handler: 500 without a credential, 500 when generation
\* throws, otherwise Response.json({ reply: text }).
POST ==
  /\ request # None
  /\ request' = None
  /\ \E apiKey \in BOOLEAN :
       IF ~apiKey
       THEN response' = Some(HttpResponse(500, <<>>))
       ELSE \/ \E text \in Replies : response' = Some(HttpResponse(200, text))
            \/ response' = Some(HttpResponse(500, <<>>))
  /\ lastOp' = "other"
  /\ UNCHANGED <<chatFrame, stateVars, sendPc, turns, uuid>>

\* Response.ok
ResponseOk(res) == res.kind = "http" /\ res.status >= 200 /\ res.status <= 299

\* A catch block that only logs.
SendCatchSilent == messages' = messages

\* A catch block that puts the apology in place of the transcript.
SendCatchReplace == messages' = <<ChatMessage(uuid + 1, "assistant", ApologyText)>>

\* catch (err) { console.error(...); append the apology }
SendCatch == messages' = Append(messages, ChatMessage(uuid + 1, "assistant", ApologyText))

\* A settle step without the finally block.
handleSendSettleNoFinally ==
  /\ sendPc = "awaitFetch"
  /\ response # None
  /\ IF ResponseOk(response[1])
     THEN messages' = Append(messages, ChatMessage(uuid + 1, "assistant", response[1].reply))
     ELSE SendCatch
  /\ uuid' = uuid + 1
  /\ response' = None
  /\ sendPc' = "idle"
  /\ lastOp' = "other"
  /\ UNCHANGED <<chatFrame, files, knowledgeBase, isReady, input, isSending, request, turns>>

\* handleSend resumes after the fetch: the reply, or the apology from the
\* catch block; finally setIsSending(false).
handleSendSettle ==
  /\ sendPc = "awaitFetch"
  /\ response # None
  /\ IF ResponseOk(response[1])
     THEN messages' = Append(messages, ChatMessage(uuid + 1, "assistant", response[1].reply))
     ELSE SendCatch
  /\ uuid' = uuid + 1
  /\ isSending' = FALSE
  /\ response' = None
  /\ sendPc' = "idle"
  /\ lastOp' = "other"
  /\ UNCHANGED <<chatFrame, files, knowledgeBase, isReady, input, request, turns>>

\* ----------------------------------------------------------- specification
Next ==
  \/ ModuleEval
  \/ Mount
  \/ \E c \in Callers : EnsureConfigure(c)
  \/ \E c \in Callers : EnsureImportFailed(c)
  \/ \E list \in {None} \cup {Some(l) : l \in Selections} : handleFileChange(list)
  \/ handleProcessDocuments
  \/ \E t \in tasks : TaskGetArrayBuffer(t)
  \/ \E t \in tasks : TaskImportPdfjs(t)
  \/ \E t \in tasks : TaskGetDocument(t)
  \/ \E t \in tasks : TaskRetryGetDocument(t)
  \/ \E t \in tasks : TaskReadPages(t)
  \/ \E t \in tasks : TaskExtractRawText(t)
  \/ \E t \in tasks : TaskFileText(t)
  \/ \E t \in tasks : TaskDecodeFallback(t)
  \/ ProcessDocumentsSuccess
  \/ ProcessDocumentsCatch
  \/ \E v \in Inputs : setInput(v)
  \/ handleSend
  \/ FetchRejects
  \/ POST
  \/ handleSendSettle

Spec == Init /\ [][Next]_vars

\* The whole system when every answering request settles (the fetch
\* resolves with the route's response or rejects) and the event loop runs
\* the continuation of handleSend once the fetch has settled.
SpecLive ==
  /\ Init /\ [][Next]_vars
  /\ WF_vars(FetchRejects \/ POST)
  /\ WF_vars(handleSendSettle)

\* The page once the component has mounted and the worker bootstrap has
\* settled: the eager call configured the worker, the mount call returned.
InitMounted ==
  /\ initialized = TRUE
  /\ workerSrc = Some(WorkerSrcUrl)
  /\ workerSrcWrites = 1
  /\ ensurePc = [c \in Callers |-> IF c = "module" THEN "done" ELSE "returned"]
  /\ importQueue = <<>>
  /\ pdfjsLoaded = TRUE
  /\ mounted = TRUE
  /\ files = <<>>
  /\ knowledgeBase = <<>>
  /\ isReady = FALSE
  /\ messages = <<>>
  /\ input = <<>>
  /\ isSending = FALSE
  /\ procPc = "idle"
  /\ procFiles = <<>>
  /\ values = <<>>
  /\ attempt = 0
  /\ tasks = {}
  /\ sendPc = "idle"
  /\ request = None
  /\ response = None
  /\ uuid = 0
  /\ turns = 0
  /\ uncaught = FALSE
  /\ lastOp = "init"

\* Document processing over batches of several files: the first processing
\* attempt of a page.  Repeated attempts are part of Spec.
NextBatch ==
  \/ \E list \in {None} \cup {Some(l) : l \in BatchSelections} : handleFileChange(list)
  \/ attempt = 0 /\ handleProcessDocuments
  \/ \E t \in tasks : TaskGetArrayBuffer(t)
  \/ \E t \in tasks : TaskImportPdfjs(t)
  \/ \E t \in tasks : TaskGetDocument(t)
  \/ \E t \in tasks : TaskRetryGetDocument(t)
  \/ \E t \in tasks : TaskReadPages(t)
  \/ \E t \in tasks : TaskExtractRawText(t)
  \/ \E t \in tasks : TaskFileText(t)
  \/ \E t \in tasks : TaskDecodeFallback(t)
  \/ ProcessDocumentsSuccess
  \/ ProcessDocumentsCatch

SpecBatch == InitMounted /\ [][NextBatch]_vars

\* Document processing of one file of any declared type and name.
NextClassify ==
  \/ \E list \in {Some(l) : l \in SingleSelections} : handleFileChange(list)
  \/ handleProcessDocuments
  \/ \E t \in tasks : TaskGetArrayBuffer(t)
  \/ \E t \in tasks : TaskImportPdfjs(t)
  \/ \E t \in tasks : TaskGetDocument(t)
  \/ \E t \in tasks : TaskRetryGetDocument(t)
  \/ \E t \in tasks : TaskReadPages(t)
  \/ \E t \in tasks : TaskExtractRawText(t)
  \/ \E t \in tasks : TaskFileText(t)
  \/ \E t \in tasks : TaskDecodeFallback(t)
  \/ ProcessDocumentsSuccess
  \/ ProcessDocumentsCatch

SpecClassify == InitMounted /\ [][NextClassify]_vars

\* ------------------------------------------------------------------ claims

\* C1: a submission made while the input is empty or only whitespace, or
\* while a reply is in flight, or while the session is not ready, changes
\* neither the transcript nor the readiness flag nor the in-flight flag and
\* issues no answering request; no request is in flight while isReady is false.
C1_RejectedSubmitIsNoOp ==
  /\ [][ ( /\ lastOp' \in {"handleSend", "handleSend:return"}
           /\ (Trim(input) = <<>> \/ isSending \/ ~isReady) )
         => ( /\ messages' = messages
              /\ isReady' = isReady
              /\ isSending' = isSending
              /\ request' = request
              /\ response' = response ) ]_vars
  /\ [](request # None => isReady)

\* A whitespace-only submission has just been turned away by a ready, idle session.
C1_Witness ==
  /\ lastOp = "handleSend:return"
  /\ isReady /\ ~isSending
  /\ input # <<>> /\ Trim(input) = <<>>

\* C2: when the answering request fails (fetch rejected, or a response
\* that is not 2xx), settling the turn appends exactly one assistant message
\* with the apology text right after the user turn, lets no error escape,
\* clears the in-flight flag and leaves the session accepting submissions.
C2_FailureAppendsApology ==
  [][ ( /\ response # None /\ response' = None
        /\ (response[1].kind = "networkError" \/ response[1].status \notin 200..299) )
      => ( /\ Len(messages') = Len(messages) + 1
           /\ SubSeq(messages', 1, Len(messages)) = messages
           /\ messages'[Len(messages')].role = "assistant"
           /\ messages'[Len(messages')].content = ApologyText
           /\ messages[Len(messages)].role = "user"
           /\ ~uncaught'
           /\ ~isSending' /\ isReady' ) ]_vars

\* After an apology a second submission was accepted.
C2_Witness ==
  /\ turns = 2
  /\ \E i \in 1..Len(messages) :
       /\ messages[i].content = ApologyText
       /\ i < Len(messages)
       /\ messages[i + 1].role = "user"

\* C3: the worker script configuration is written at most once per
\* process, however the calls of ensurePdfjsWorker interleave.
C3_WorkerConfiguredOnce == workerSrcWrites <= 1

\* C4: no extraction has opened a PDF document while the worker script
\* configuration is still unwritten.
C4_WorkerRegisteredBeforeOpen ==
  \A t \in tasks : t.opens > 0 => workerSrc # None

\* The text the extraction of the i-th file of the running batch returned.
BatchTask(i) == CHOOSE t \in tasks : t.attempt = attempt /\ t.idx = i

RECURSIVE TextsInFileOrder(_, _)
TextsInFileOrder(i, n) ==
  IF i > n THEN <<>>
  ELSE BatchTask(i).text[1] \o (IF i < n THEN Separator ELSE <<>>)
         \o TextsInFileOrder(i + 1, n)

\* C5: once processing has succeeded, the knowledge base is the texts
\* extracted from the selected files, in file-selection order, with the
\* separator between neighbours, whatever order the extractions finished in.
C5_KnowledgeBaseInFileOrder ==
  isReady =>
    /\ \A i \in 1..Len(procFiles) : BatchTask(i).file = procFiles[i]
    /\ knowledgeBase = TextsInFileOrder(1, Len(procFiles))

\* A batch succeeded in which a later file finished before an earlier one.
C5_Witness ==
  /\ isReady
  /\ \E t, u \in tasks :
       /\ t.attempt = attempt /\ u.attempt = attempt
       /\ t.idx < u.idx /\ t.rank > u.rank
       /\ t.text # u.text

RejectedInBatch == \E t \in tasks : t.attempt = attempt /\ t.pc = "rejected"

\* C6: from the moment one extraction of the running batch has rejected,
\* the knowledge base, the readiness flag and the transcript keep their
\* values, and the attempt ends with the in-flight flag cleared.
C6_AllOrNothing ==
  [][ (procPc = "awaitAll" /\ RejectedInBatch)
      => ( /\ knowledgeBase' = knowledgeBase
           /\ isReady' = isReady
           /\ messages' = messages
           /\ (procPc' = "idle" => ~isSending') ) ]_vars

\* A failed batch in which another file had been extracted.
C6_Witness ==
  /\ procPc = "idle" /\ ~isSending /\ ~isReady
  /\ \E t, u \in tasks :
       /\ t.attempt = attempt /\ u.attempt = attempt
       /\ t.pc = "rejected" /\ u.pc = "resolved"

\* C7: isReady is false before any processing attempt, becomes true only
\* in the step in which a batch has been extracted in full, and never
\* becomes false again.
C7_ReadinessLatch ==
  /\ [](attempt = 0 => ~isReady)
  /\ [][ /\ (isReady => isReady')
         /\ ((~isReady /\ isReady') =>
               (procPc = "awaitAll" /\ \A i \in 1..Len(values) : values[i] # None)) ]_vars

\* Ready after a failed attempt, with a failed chat turn behind it.
C7_Witness ==
  /\ isReady /\ attempt = 2
  /\ \E i \in 1..Len(messages) : messages[i].content = ApologyText

\* C8: every step leaves the old transcript as a prefix of the new one.
C8_TranscriptAppendOnly ==
  [][ /\ Len(messages') >= Len(messages)
      /\ SubSeq(messages', 1, Len(messages)) = messages ]_vars

\* A transcript of the welcome, a failed turn and a second turn.
C8_Witness ==
  /\ Len(messages) >= 5
  /\ \E i \in 1..Len(messages) : messages[i].content = ApologyText

MimeFormat(type) ==
  IF type = PdfMime THEN "pdf"
  ELSE IF type = DocxMime THEN "docx"
  ELSE IF type = TxtMime THEN "txt"
  ELSE "none"

ExtensionFormat(name) ==
  IF name \in {<<"n", ".", "p", "d", "f">>, <<"N", ".", "P", "D", "F">>} THEN "pdf"
  ELSE IF name \in {<<"n", ".", "d", "o", "c", "x">>, <<"n", ".", "D", "o", "c", "X">>} THEN "docx"
  ELSE IF name \in {<<"n", ".", "t", "x", "t">>, <<"n", ".", "T", "X", "T">>} THEN "txt"
  ELSE "none"

C10_OpenRetriedOnce ==
  \A t \in tasks :
    /\ t.opens <= 2
    /\ t.firstErr = None => (t.opens <= 1 /\ ~t.workerDisabled)
    /\ (t.firstErr # None /\ t.firstErr[1] \in {MismatchError, MismatchString}) =>
         /\ t.opens = 2 /\ t.workerDisabled
         /\ t.pc \in {"retryGetDocument", "readPages", "resolved", "rejected"}
    /\ (t.firstErr # None /\ t.firstErr[1] \notin {MismatchError, MismatchString}) =>
         /\ t.opens = 1 /\ ~t.workerDisabled
         /\ t.pc = "rejected" /\ t.error = t.firstErr
    /\ (t.pc = "resolved" /\ t.file = PdfFile) =>
         t.text = Some(<<"a", " ", "b", "\n", "c">>)

\* An extraction that resolved through the retry.
C10_Witness ==
  \E t \in tasks : t.pc = "resolved" /\ t.opens = 2 /\ t.workerDisabled

\* C11: the step that appends a user turn issues the one answering request
\* of that turn, no request being in flight before it; the body carries the
\* knowledge base and the roles and contents of the whole transcript as it
\* stands after the append, in order, the new user turn last; a request is
\* issued by no other step; and the assistant message of a turn is appended
\* directly after its user turn.
C11_RequestCarriesTranscript ==
  [][ /\ ( /\ Len(messages') = Len(messages) + 1
           /\ messages'[Len(messages')].role = "user" )
         => ( /\ request = None /\ response = None
              /\ request' # None
              /\ request'[1].knowledgeBase = knowledgeBase
              /\ Len(request'[1].messages) = Len(messages) + 1
              /\ \A i \in 1..Len(messages') :
                   /\ request'[1].messages[i].role = messages'[i].role
                   /\ request'[1].messages[i].content = messages'[i].content
              /\ SubSeq(messages', 1, Len(messages)) = messages
              /\ messages'[Len(messages')].content = Trim(input) )
      /\ (request' # None /\ request' # request)
         => ( /\ Len(messages') = Len(messages) + 1
              /\ messages'[Len(messages')].role = "user" )
      /\ ( /\ isReady
           /\ Len(messages') = Len(messages) + 1
           /\ messages'[Len(messages')].role = "assistant" )
         => ( /\ messages[Len(messages)].role = "user"
              /\ request = None /\ response # None
              /\ SubSeq(messages', 1, Len(messages)) = messages ) ]_vars

\* The request of a second turn is in flight, carrying the welcome, the
\* first turn and its answer, and the new user turn.
C11_Witness ==
  /\ request # None
  /\ turns = 2
  /\ Len(request[1].messages) = 4
  /\ request[1].messages[4].role = "user"
  /\ request[1].knowledgeBase = knowledgeBase /\ knowledgeBase # <<>>

\* C12: at most one answering request is in flight, and only while a turn
\* is awaiting its reply; between turns the transcript is the welcome
\* followed by one user message and one assistant message per turn; and
\* every accepted submission is followed by a state in which no reply is in
\* flight and the transcript ends with that turn's user message and one
\* assistant message, the reply or the apology.
C12_EveryTurnCompletes ==
  /\ []( /\ ~(request # None /\ response # None)
         /\ (request # None \/ response # None) => (sendPc = "awaitFetch" /\ isSending)
         /\ sendPc = "awaitFetch" =>
              (isSending /\ Len(messages) = 2 * turns /\ messages[2 * turns].role = "user")
         /\ (sendPc = "idle" /\ isReady) => Len(messages) = 2 * turns + 1 )
  /\ [][ (request' # None /\ request' # request) =>
           (request = None /\ response = None /\ sendPc = "idle" /\ ~isSending) ]_vars
  /\ \A k \in 1..MaxTurns :
       (turns = k /\ sendPc = "awaitFetch")
         ~> ( /\ turns = k /\ sendPc = "idle" /\ ~isSending
              /\ Len(messages) = 2 * k + 1
              /\ messages[2 * k].role = "user"
              /\ messages[2 * k + 1].role = "assistant"
              /\ \/ messages[2 * k + 1].content = ApologyText
                 \/ messages[2 * k + 1].content \in Replies )

\* Two turns have completed, one with a reply and one with the apology.
C12_Witness ==
  /\ turns = 2 /\ sendPc = "idle" /\ ~isSending
  /\ Len(messages) = 5
  /\ \E i \in {3, 5} : messages[i].content = ApologyText
  /\ \E i \in {3, 5} : messages[i].content \in Replies

====
